---- MODULE Spec2Model ----
(***************************************************************************)
(* Package archive engine of intent-cli (internal/pack): CreateItpkg       *)
(* builds a flat .itpkg archive (itpkg.json, project files,                *)
(* MANIFEST.sha256, SIGNATURE) from a source directory, UntarGz extracts   *)
(* an archive into a destination directory.                                *)
(*                                                                         *)
(* File contents, digests, checksum lines and signatures are sequences of  *)
(* byte values; a path is the sequence of its segments.                    *)
(***************************************************************************)
EXTENDS Integers, Sequences, FiniteSets, TLC

\* ---------------------------------------------------------------- bounds
MaxFiles == 2      \* most project files of a source tree
MaxEntries == 2    \* most entries of an archive handed to UntarGz directly
MaxName == 3       \* most characters of a package name the registry returns
MaxReqs == 3       \* most requests the mock registry serves at the same time

\* ------------------------------------------------------- bytes and paths
\* the bytes of a path segment
SegBytes(s) ==
  CASE s = "itpkg.json" -> <<105, 116, 112, 107, 103, 46, 106, 115, 111, 110>>
    [] s = "MANIFEST.sha256" -> <<77, 65, 78, 73, 70, 69, 83, 84, 46, 115, 104, 97, 50, 53, 54>>
    [] s = "SIGNATURE" -> <<83, 73, 71, 78, 65, 84, 85, 82, 69>>
    [] s = "app.itml" -> <<97, 112, 112, 46, 105, 116, 109, 108>>
    [] s = "intents" -> <<105, 110, 116, 101, 110, 116, 115>>
    [] s = "policies" -> <<112, 111, 108, 105, 99, 105, 101, 115>>
    [] s = ".." -> <<46, 46>>
    [] s = "a.itml" -> <<97, 46, 105, 116, 109, 108>>
    [] s = "out.itpkg" -> <<111, 117, 116, 46, 105, 116, 112, 107, 103>>
    [] s = "hello.itml" -> <<104, 101, 108, 108, 111, 46, 105, 116, 109, 108>>
    [] s = "security.itml" ->
         <<115, 101, 99, 117, 114, 105, 116, 121, 46, 105, 116, 109, 108>>
    [] OTHER -> <<63>>

RECURSIVE PathBytes(_)
\* the bytes of a relative path as filepath.Rel returns it: segments joined by '/'
PathBytes(p) ==
  IF Len(p) = 0 THEN <<46>>
  ELSE IF Len(p) = 1 THEN SegBytes(p[1])
  ELSE SegBytes(p[1]) \o <<47>> \o PathBytes(Tail(p))

RECURSIVE BytesLess(_, _)
\* Go's < on strings: bytewise lexicographic order
BytesLess(a, b) ==
  IF Len(b) = 0 THEN FALSE
  ELSE IF Len(a) = 0 THEN TRUE
  ELSE IF a[1] # b[1] THEN a[1] < b[1]
  ELSE BytesLess(Tail(a), Tail(b))

ItpkgJson == <<"itpkg.json">>
ManifestSha == <<"MANIFEST.sha256">>
SignatureName == <<"SIGNATURE">>
OutRel == <<"out.itpkg">>
Unsigned == <<85, 78, 83, 73, 71, 78, 69, 68>>

\* sha256.Sum256 followed by hex.EncodeToString: a digest that tells any two
\* contents apart (no collisions), kept as the tagged content
Sha256Hex(b) == <<104>> \o b

\* ed25519.Sign: deterministic in the key and the message
Ed25519Sign(key, msg) == <<115, key>> \o msg

NilKey == 0
Keys == {1}

\* ------------------------------------------------------- itpkg.json model
\* a decoded JSON value of the policies tree
NoFields == [k \in {} |-> 0]
JNull == [kind |-> "null", fields |-> NoFields]
JString == [kind |-> "string", fields |-> NoFields]
JObject(f) == [kind |-> "object", fields |-> f]
\* v[key].(map[string]interface{}) : the value and ok of the type assertion
IsMapAt(v, key) == key \in DOMAIN v.fields /\ v.fields[key].kind = "object"

NetworkDeny == JObject([outbound |-> JString])
PoliciesFull == JObject([security |-> JObject([network |-> NetworkDeny])])
PoliciesEmpty == JObject(NoFields)

LibManifest ==
  [Name |-> "@scope/demo", Version |-> "0.1.0", ItmlVersion |-> "0.1",
   Type |-> "lib", Entry |-> <<>>, Policies |-> PoliciesEmpty]
AppManifest ==
  [Name |-> "@scope/demo", Version |-> "0.1.0", ItmlVersion |-> "0.1",
   Type |-> "", Entry |-> <<"app.itml">>, Policies |-> PoliciesFull]
NoNameManifest == [LibManifest EXCEPT !.Name = ""]
NoPoliciesManifest == [LibManifest EXCEPT !.Policies = JNull]
AppNoNetwork ==
  [AppManifest EXCEPT !.Policies = JObject([security |-> JObject(NoFields)])]

\* what srcDir/itpkg.json can hold: nothing, bytes that are no JSON, or a manifest
Absent == [state |-> "absent", manifest |-> LibManifest]
Malformed == [state |-> "malformed", manifest |-> LibManifest]
Holding(m) == [state |-> "json", manifest |-> m]
ManifestFiles ==
  {Absent, Malformed} \cup
  {Holding(m) : m \in {LibManifest, AppManifest, NoNameManifest,
                       NoPoliciesManifest, AppNoNetwork}}

ReadItpkgManifest(file) ==
  IF file.state = "json" THEN [err |-> "", manifest |-> file.manifest]
  ELSE [err |-> "read", manifest |-> file.manifest]

\* json.MarshalIndent(manifest): the canonical bytes of the struct, which are
\* not the bytes of the source file
MarshalIndent(m) ==
  <<123,
    IF m.Name = "" THEN 0 ELSE 1,
    IF m.Type = "lib" THEN 1 ELSE IF m.Type = "app" THEN 2 ELSE 0,
    Len(m.Entry),
    IF m.Policies.kind = "null" THEN 0 ELSE 1 + Cardinality(DOMAIN m.Policies.fields),
    IF ~IsMapAt(m.Policies, "security") THEN 0
    ELSE 1 + Cardinality(DOMAIN m.Policies.fields["security"].fields),
    125>>

\* os.Stat(filepath.Join(srcDir, p)) does not report IsNotExist: p is srcDir,
\* a directory or a file of the tree
Exists(tree, p) == p = <<>> \/ p \in tree.dirs \/ p \in tree.files

\* the rules without the default of the type
ValidateManifestNoDefault(manifest, tree) ==
  LET pkgType == manifest.Type IN
  IF manifest.Name = "" THEN "name is required"
  ELSE IF manifest.Version = "" THEN "version is required"
  ELSE IF manifest.ItmlVersion = "" THEN "itmlVersion is required"
  ELSE IF pkgType = "app" /\ manifest.Entry = <<>>
    THEN "entry is required for app packages"
  ELSE IF pkgType = "app" /\ manifest.Entry # <<>> /\ ~Exists(tree, manifest.Entry)
    THEN "entry file not found"
  ELSE IF manifest.Policies.kind = "null" THEN "policies are required"
  ELSE IF pkgType = "app" /\ ~IsMapAt(manifest.Policies, "security")
    THEN "policies.security is required for app packages"
  ELSE IF pkgType = "app" /\ ~IsMapAt(manifest.Policies.fields["security"], "network")
    THEN "policies.security.network is required for app packages"
  ELSE ""

\* lines 205-248: the first rule the manifest breaks, "" when it breaks none
ValidateManifest(manifest, tree) ==
  LET pkgType == IF manifest.Type = "" THEN "app" ELSE manifest.Type IN
  IF manifest.Name = "" THEN "name is required"
  ELSE IF manifest.Version = "" THEN "version is required"
  ELSE IF manifest.ItmlVersion = "" THEN "itmlVersion is required"
  ELSE IF pkgType = "app" /\ manifest.Entry = <<>>
    THEN "entry is required for app packages"
  ELSE IF pkgType = "app" /\ manifest.Entry # <<>> /\ ~Exists(tree, manifest.Entry)
    THEN "entry file not found"
  ELSE IF manifest.Policies.kind = "null" THEN "policies are required"
  ELSE IF pkgType = "app" /\ ~IsMapAt(manifest.Policies, "security")
    THEN "policies.security is required for app packages"
  ELSE IF pkgType = "app" /\ ~IsMapAt(manifest.Policies.fields["security"], "network")
    THEN "policies.security.network is required for app packages"
  ELSE ""

\* the errs list of ValidateStructure; the call fails iff it is not empty
ValidateStructure(tree, manifest) ==
  LET pkgType == IF manifest.Type = "" THEN "app" ELSE manifest.Type
      missing(dir) == IF Exists(tree, <<dir>>) THEN <<>> ELSE <<dir>>
      entry == IF pkgType = "app" /\ manifest.Entry # <<>> /\ ~Exists(tree, manifest.Entry)
               THEN <<"entry file not found">> ELSE <<>>
  IN missing("intents") \o missing("policies") \o entry

\* lines 277-301: the warnings, which are printed when there is no error
StructureWarnings(tree, manifest) ==
  LET pkgType == IF manifest.Type = "" THEN "app" ELSE manifest.Type
      missing(dir) == IF Exists(tree, <<dir>>) THEN <<>> ELSE <<dir>>
      tests == IF pkgType = "app" /\ ~Exists(tree, <<"tests">>)
               THEN <<"no tests directory found for app package">> ELSE <<>>
  IN IF ValidateStructure(tree, manifest) # <<>> THEN <<>>
     ELSE missing("schemas") \o missing("tests") \o missing(".ci") \o missing("assets")
            \o tests

\* ------------------------------------------------------------- the state
VARIABLES
  srcFiles,         \* srcDir: relative path -> bytes of every regular file
                    \* other than itpkg.json and the output file
  srcDirs,          \* srcDir: the directories in it
  itpkgFile,        \* srcDir/itpkg.json
  outInside,        \* outputPath is srcDir/out.itpkg (otherwise outside srcDir)
  outFile,          \* the file at outputPath: [exists, entries]
  pc,               \* position of the running CreateItpkg call
  signKey, unsignedAllowed,      \* arguments of the call
  tw,               \* entries written to the tar writer so far
  manifestEntries, manifestContent, signature,   \* locals of the call
  err,              \* the error returned ("" is nil)
  closeLog,         \* writers closed by the deferred calls, in order
  closeErr,         \* the writer whose Close returned an error ("" for none)
  prevManifest,     \* manifestContent of the last successful earlier call
  fs,               \* destination side: absolute path -> node, made by UntarGz
  untarArchive,     \* the archive of the last UntarGz call
  untarErr,         \* its error ("" is nil)
  untarDone,        \* an UntarGz call has returned
  untarFault,       \* the entry of that call that met an I/O fault, and the fault
  validated,        \* the validators that were called on the tree
  manifestErr,      \* the error of the last ValidateManifest call ("" is nil)
  structureErrs,    \* the errs of the last ValidateStructure call
  warnings,         \* the warnings it printed
  instPc,           \* position of the running install command
  meta,             \* the metadata the registry returned for the spec
  dlFile,           \* the file at dlPath: [exists, entries]
  sum,              \* the digest computed from dlPath
  instErr,          \* the error install returned ("" is nil)
  tgPc,             \* position of the running TarGzToPath call
  tgGz,             \* its gzip writer: header written, bytes not yet compressed out
  tgPad,            \* its tar writer owes the padding of the last file
  tgFile,           \* the file at its outputPath: [exists, bytes]
  tgSum,            \* the digest it returns
  tgErr,            \* the error it returns ("" is nil)
  httpPc,           \* position of the running Client.Get call
  httpLog,          \* how each attempt of that call ended, in order
  httpErr,          \* the error Get returned ("" is nil)
  instName,         \* the package name in the registry's metadata, by character
  targetDir,        \* the directory install extracts that package into
  manPath,          \* the path install writes the install record to
  cmdUnsigned,      \* the package command was run with --unsigned
  cmdKey,           \* the signing key it was given (NilKey for none)
  cmdErr,           \* the error it returned before it built ("" for none)
  regPackages,      \* mock registry: registry.packages, key -> *Package
  regFiles,         \* registry.files, tarball path -> content
  regMu,            \* registry.mu: the request holding it for writing, those reading
  regClock,         \* time.Now() of the registry's host
  regReqs           \* the requests in their handlers: arguments, position, answer

vars == <<srcFiles, srcDirs, itpkgFile, outInside, outFile, pc, signKey, unsignedAllowed,
          tw, manifestEntries, manifestContent, signature, err, closeLog, closeErr,
          prevManifest, fs, untarArchive, untarErr, untarDone, untarFault,
          validated, manifestErr, structureErrs, warnings, instPc, meta, dlFile, sum, instErr,
          tgPc, tgGz, tgPad, tgFile, tgSum, tgErr,
          httpPc, httpLog, httpErr, instName, targetDir, manPath,
          cmdUnsigned, cmdKey, cmdErr,
          regPackages, regFiles, regMu, regClock, regReqs>>

srcVars == <<srcFiles, srcDirs, itpkgFile, outInside>>
untarVars == <<fs, untarArchive, untarErr, untarDone, untarFault>>
valVars == <<validated, manifestErr, structureErrs, warnings>>
instVars == <<instPc, meta, dlFile, sum, instErr>>
tgVars == <<tgPc, tgGz, tgPad, tgFile, tgSum, tgErr>>
\* the state of the commands beside the package engine and install
httpVars == <<httpPc, httpLog, httpErr>>
nameVars == <<instName, targetDir, manPath>>
cmdVars == <<cmdUnsigned, cmdKey, cmdErr>>
\* the same beside the package command, which calls the engine
engineRest == <<tgVars, httpVars, nameVars>>
regVars == <<regPackages, regFiles, regMu, regClock, regReqs>>
restVars == <<engineRest, cmdVars, regVars>>

ProjectPaths ==
  {<<"app.itml">>, <<"intents", "a.itml">>, ManifestSha, SignatureName}
RequiredDirs == {<<"intents">>, <<"policies">>}
\* the bytes of a project file; no two files hold the same
FileBytes(p) == <<Len(PathBytes(p)), PathBytes(p)[1]>>
SourceTrees ==
  {[p \in S |-> FileBytes(p)] : S \in {T \in SUBSET ProjectPaths : Cardinality(T) <= MaxFiles}}

NoOutFile == [exists |-> FALSE, entries |-> <<>>]
Header(name, flag, b) == [Name |-> name, Typeflag |-> flag, Body |-> b]
\* an archive left at outputPath by an earlier release of the package
EarlierArchive ==
  [exists |-> TRUE, entries |-> <<Header(ItpkgJson, "reg", <<123, 125>>)>>]

NoFs == [p \in {} |-> 0]
NoMeta == [name |-> "", tarball |-> "", sha256 |-> <<>>]
NoGz == [wroteHeader |-> FALSE, buf |-> <<>>, size |-> 0]
NoBytes == [exists |-> FALSE, bytes |-> <<>>]
NoRequest == [kind |-> "", arg |-> <<>>, pc |-> "none", status |-> 0, saw |-> <<>>]

\* nothing has been called yet
Idle ==
  /\ pc = "idle"
  /\ signKey = NilKey
  /\ unsignedAllowed = FALSE
  /\ tw = <<>>
  /\ manifestEntries = <<>>
  /\ manifestContent = <<>>
  /\ signature = <<>>
  /\ err = ""
  /\ closeLog = <<>>
  /\ closeErr = ""
  /\ prevManifest = <<>>
  /\ fs = NoFs
  /\ untarArchive = <<>>
  /\ untarErr = ""
  /\ untarDone = FALSE
  /\ untarFault = [at |-> 0, kind |-> ""]
  /\ validated = {}
  /\ manifestErr = ""
  /\ structureErrs = <<>>
  /\ warnings = <<>>
  /\ instPc = "idle"
  /\ meta = NoMeta
  /\ dlFile = NoOutFile
  /\ sum = <<>>
  /\ instErr = ""
  /\ tgPc = "idle"
  /\ tgGz = NoGz
  /\ tgPad = FALSE
  /\ tgFile = NoBytes
  /\ tgSum = <<>>
  /\ tgErr = ""
  /\ httpPc = "idle"
  /\ httpLog = <<>>
  /\ httpErr = ""
  /\ instName = <<>>
  /\ targetDir = <<>>
  /\ manPath = <<>>
  /\ cmdUnsigned = FALSE
  /\ cmdKey = NilKey
  /\ cmdErr = ""
  /\ regPackages = NoFs
  /\ regFiles = NoFs
  /\ regMu = [writer |-> 0, readers |-> {}]
  /\ regClock = 0
  /\ regReqs = [r \in 1..MaxReqs |-> NoRequest]

Init ==
  /\ srcFiles \in SourceTrees
  /\ srcDirs \in {D \in SUBSET RequiredDirs :
                    \A f \in DOMAIN srcFiles : Len(f) > 1 => <<f[1]>> \in D}
  /\ itpkgFile \in ManifestFiles
  /\ outInside \in BOOLEAN
  /\ outFile \in {NoOutFile, EarlierArchive}
  /\ Idle

\* ------------------------------------------------------------ CreateItpkg
\* addBytesToTar: one header and its body; the tar writer stores a header
\* without type flag as a regular file
addBytesToTar(w, b, name) == Append(w, Header(name, "reg", b))

\* the three deferred calls run last-registered-first: tw.Close, gz.Close,
\* outFile.Close; what was written to the tar writer reaches the file
Registered == <<"outFile", "gz", "tw">>
\* deferred calls run in the order they were registered
DeferredClosesFifo == Registered
DeferredCloses == [i \in 1..Len(Registered) |-> Registered[Len(Registered) + 1 - i]]
\* a Close can fail; the three deferred calls drop or overwrite only the local
\* err, never the value that is returned
CloseOutcomes == {""} \cup {Registered[i] : i \in 1..Len(Registered)}
Flushed(w) == [exists |-> TRUE, entries |-> w]

\* lines 52-66: the error of reading and validating itpkg.json and the tree
CheckSource(file, tree) ==
  LET read == ReadItpkgManifest(file) IN
  IF read.err # "" THEN "failed to read itpkg.json"
  ELSE IF ValidateManifest(read.manifest, tree) # "" THEN "manifest validation failed"
  ELSE IF ValidateStructure(tree, read.manifest) # <<>> THEN "structure validation failed"
  ELSE ""

\* os.Create moved above the validation
OpenOutputFirst(failure, createFails, file) ==
  IF createFails THEN file ELSE [exists |-> TRUE, entries |-> <<>>]

\* lines 54-72: the file at outputPath after the early returns and
\* os.Create, which makes the file or truncates it
OpenOutput(failure, createFails, file) ==
  IF failure = "" /\ ~createFails THEN Flushed(<<>>) ELSE file

\* lines 51-82: read and validate itpkg.json, then os.Create(outputPath)
CreateItpkg(key, unsignedOk, createFails) ==
  /\ pc \in {"idle", "returned"}
  /\ signKey' = key
  /\ unsignedAllowed' = unsignedOk
  /\ prevManifest' = IF pc = "returned" /\ err = "" THEN manifestContent ELSE prevManifest
  /\ tw' = <<>>
  /\ manifestEntries' = <<>>
  /\ manifestContent' = <<>>
  /\ signature' = <<>>
  /\ closeLog' = <<>>
  /\ closeErr' = ""
  /\ LET failure ==
           CheckSource(itpkgFile,
                       [files |-> DOMAIN srcFiles \cup {ItpkgJson}, dirs |-> srcDirs])
     IN /\ err' = IF failure = "" /\ createFails THEN "create" ELSE failure
        /\ pc' = IF err' = "" THEN "addManifest" ELSE "returned"
        /\ outFile' = OpenOutput(failure, createFails, outFile)
  /\ UNCHANGED <<srcVars, untarVars, valVars, engineRest, instVars>>

\* lines 87-99: itpkg.json is hashed and written first
AddManifestJSON ==
  /\ pc = "addManifest"
  /\ LET manifestJSON == MarshalIndent(itpkgFile.manifest) IN
       /\ manifestEntries' =
            Append(manifestEntries, [Hash |-> Sha256Hex(manifestJSON), Path |-> ItpkgJson])
       /\ tw' = addBytesToTar(tw, manifestJSON, ItpkgJson)
  /\ pc' = "walk"
  /\ UNCHANGED <<srcVars, untarVars, valVars, restVars, instVars, outFile, signKey, unsignedAllowed,
                 manifestContent, signature, err, closeLog, closeErr, prevManifest>>

RECURSIVE Orders(_)
\* every order in which a walk can visit a set of files
Orders(S) ==
  IF S = {} THEN {<<>>}
  ELSE UNION {{<<x>> \o o : o \in Orders(S \ {x})} : x \in S}

\* the regular files filepath.Walk(srcDir) meets: the project files,
\* itpkg.json, and the output file when it lies in srcDir (os.Create made
\* it); the callback passes over directories (line 106)
WalkFiles == DOMAIN srcFiles \cup {ItpkgJson} \cup (IF outInside THEN {OutRel} ELSE {})

\* the walk callback without the check for the output file
SkippedManifestOnly(rel) == rel = ItpkgJson

\* the walk callback without its two checks
SkippedNothing(rel) == FALSE

\* lines 110-119: the walk callback leaves out itpkg.json and the output file
Skipped(rel) == rel = ItpkgJson \/ (outInside /\ rel = OutRel)

\* os.ReadFile(path) of a file the walk meets
ReadFile(rel) ==
  IF rel \in DOMAIN srcFiles THEN srcFiles[rel]
  ELSE IF rel = ItpkgJson THEN <<123, 63, 125>>
  ELSE <<31, 139>>

RECURSIVE WalkFrom(_, _, _)
\* lines 102-136: the callback applied to the files in visiting order; the
\* file at position failAt (0: none) cannot be read and ends the walk
WalkFrom(order, failAt, st) ==
  IF order = <<>> THEN st
  ELSE LET rel == Head(order) IN
    IF Skipped(rel) THEN WalkFrom(Tail(order), failAt - 1, st)
    ELSE IF failAt = 1 THEN [st EXCEPT !.err = "failed to add project files"]
    ELSE LET content == ReadFile(rel) IN
      WalkFrom(Tail(order), failAt - 1,
               [st EXCEPT
                  !.entries = Append(@, [Hash |-> Sha256Hex(content), Path |-> rel]),
                  !.tw = addBytesToTar(@, content, rel)])

\* lines 102-139: add every project file; a failed read returns the error
Walk(order, failAt) ==
  /\ pc = "walk"
  /\ LET st == WalkFrom(order, failAt,
                        [entries |-> manifestEntries, tw |-> tw, err |-> ""])
     IN /\ manifestEntries' = st.entries
        /\ tw' = st.tw
        /\ err' = st.err
        /\ IF st.err = ""
             THEN /\ pc' = "sort"
                  /\ UNCHANGED <<outFile, closeLog, closeErr>>
             ELSE /\ pc' = "returned"
                  /\ closeLog' = DeferredCloses
                  /\ closeErr' \in CloseOutcomes
                  /\ outFile' = Flushed(st.tw)
  /\ UNCHANGED <<srcVars, untarVars, valVars, restVars, instVars, signKey, unsignedAllowed,
                 manifestContent,
                 signature, prevManifest>>

\* a less function that compares the digests
HashLess(e1, e2) == BytesLess(e1.Hash, e2.Hash)

\* the less function of line 143
PathLess(e1, e2) == BytesLess(PathBytes(e1.Path), PathBytes(e2.Path))

\* the entries left in the order of the walk
SortSliceLeftOut(entries) == {entries}

\* sort.Slice (not stable): every arrangement of the entries in which no
\* entry is less than one before it
SortSlice(entries) ==
  LET n == Len(entries)
      sorted(f) == \A i \in 1..n : \A j \in (i + 1)..n :
                     ~PathLess(entries[f[j]], entries[f[i]])
  IN {[i \in 1..n |-> entries[f[i]]] : f \in {g \in Permutations(1..n) : sorted(g)}}

RECURSIVE JoinLines(_)
\* strings.Join(manifestLines, "\n")
JoinLines(lines) ==
  IF lines = <<>> THEN <<>>
  ELSE IF Len(lines) = 1 THEN lines[1]
  ELSE lines[1] \o <<10>> \o JoinLines(Tail(lines))

\* line 149: fmt.Sprintf("%s  %s", entry.Hash, entry.Path)
ManifestLine(entry) == entry.Hash \o <<32, 32>> \o PathBytes(entry.Path)

\* lines 147-151: the serialized MANIFEST.sha256
Serialize(entries) ==
  JoinLines([i \in 1..Len(entries) |-> ManifestLine(entries[i])]) \o <<10>>

\* lines 141-155: sort the entries, serialize them, write MANIFEST.sha256
SortAndWriteManifest ==
  /\ pc = "sort"
  /\ \E sorted \in SortSlice(manifestEntries) :
       /\ manifestEntries' = sorted
       /\ manifestContent' = Serialize(sorted)
       /\ tw' = addBytesToTar(tw, Serialize(sorted), ManifestSha)
  /\ pc' = "sign"
  /\ UNCHANGED <<srcVars, untarVars, valVars, restVars, instVars, outFile, signKey,
                 unsignedAllowed, signature,
                 err, closeLog, closeErr, prevManifest>>

\* a signing step that falls back to the marker whenever there is no key
SignatureForNoGate(key, unsignedOk, content) ==
  IF key # NilKey THEN [sig |-> <<115, key>> \o content, err |-> ""]
  ELSE [sig |-> Unsigned, err |-> ""]

\* lines 158-173: the signature bytes and the error of the signing step
SignatureFor(key, unsignedOk, content) ==
  IF key # NilKey THEN [sig |-> Ed25519Sign(key, content), err |-> ""]
  ELSE IF unsignedOk THEN [sig |-> Unsigned, err |-> ""]
  ELSE [sig |-> <<>>, err |-> "signing key not provided"]

\* lines 157-177: sign MANIFEST.sha256 and write SIGNATURE, or return the error
Sign ==
  /\ pc = "sign"
  /\ LET s == SignatureFor(signKey, unsignedAllowed, manifestContent) IN
       /\ signature' = s.sig
       /\ err' = s.err
       /\ IF s.err = ""
            THEN /\ tw' = addBytesToTar(tw, s.sig, SignatureName)
                 /\ pc' = "flush"
                 /\ UNCHANGED <<outFile, closeLog, closeErr>>
            ELSE /\ pc' = "returned"
                 /\ closeLog' = DeferredCloses
                 /\ closeErr' \in CloseOutcomes
                 /\ outFile' = Flushed(tw)
                 /\ UNCHANGED tw
  /\ UNCHANGED <<srcVars, untarVars, valVars, restVars, instVars, signKey, unsignedAllowed,
                 manifestEntries,
                 manifestContent, prevManifest>>

\* lines 179-186 and the deferred calls of lines 73-82: flush, return
\* outputPath, close the tar writer, the gzip writer and the file; when a
\* flush fails, reached is what did get to the file (nothing or all)
FlushAndReturn(flushFails, reached) ==
  /\ pc = "flush"
  /\ err' = IF flushFails THEN "flush" ELSE ""
  /\ pc' = "returned"
  /\ closeLog' = DeferredCloses
  /\ closeErr' \in CloseOutcomes
  /\ outFile' = IF flushFails THEN Flushed(reached) ELSE Flushed(tw)
  /\ UNCHANGED <<srcVars, untarVars, valVars, restVars, instVars, signKey, unsignedAllowed,
                 tw, manifestEntries,
                 manifestContent, signature, prevManifest>>

\* ---------------------------------------------------------------- UntarGz
DestDir == <<"dest">>

RECURSIVE CleanFrom(_, _)
\* filepath.Clean of a relative path: drop ".", let ".." cancel the segment
\* before it, keep the ".." that lead the path
CleanFrom(acc, rest) ==
  IF rest = <<>> THEN acc
  ELSE IF Head(rest) = "." THEN CleanFrom(acc, Tail(rest))
  ELSE IF Head(rest) = ".." /\ acc # <<>> /\ acc[Len(acc)] # ".."
    THEN CleanFrom(SubSeq(acc, 1, Len(acc) - 1), Tail(rest))
  ELSE CleanFrom(Append(acc, Head(rest)), Tail(rest))

\* line 84: filepath.Join(destDir, hdr.Name)
Join(dir, name) == CleanFrom(<<>>, dir \o name)

\* filepath.Dir of a cleaned path
Dir(p) == IF p = <<>> THEN <<>> ELSE SubSeq(p, 1, Len(p) - 1)

\* a directory that is there without being made: the working directory and
\* the directories above it
Above(p) == \A i \in 1..Len(p) : p[i] = ".."

IsDirAt(tree, p) == Above(p) \/ (p \in DOMAIN tree /\ tree[p].kind = "dir")
IsFileAt(tree, p) == ~Above(p) /\ p \in DOMAIN tree /\ tree[p].kind = "file"

DirNode == [kind |-> "dir", body |-> <<>>]
FileNode(b) == [kind |-> "file", body |-> b]

\* os.MkdirAll(p): p and the directories on the way to it; fails when one of
\* them is a file
MkdirAll(tree, p) ==
  LET made == {SubSeq(p, 1, k) : k \in 1..Len(p)} \ {q \in {SubSeq(p, 1, k) : k \in 1..Len(p)} : Above(q)}
  IN IF \E q \in made : IsFileAt(tree, q)
       THEN [fs |-> tree, err |-> "mkdir"]
       ELSE [fs |-> [q \in DOMAIN tree \cup made |->
                       IF q \in made THEN DirNode ELSE tree[q]],
             err |-> ""]

\* a file that is made and closed without the copy
WriteFileNoCopy(tree, p, b) ==
  IF IsDirAt(tree, p) THEN [fs |-> tree, err |-> "open"]
  ELSE [fs |-> [q \in DOMAIN tree \cup {p} |-> IF q = p THEN FileNode(<<>>) ELSE tree[q]],
        err |-> ""]

\* os.OpenFile(O_CREATE|O_WRONLY|O_TRUNC), io.Copy, Close
WriteFile(tree, p, b) ==
  IF IsDirAt(tree, p) THEN [fs |-> tree, err |-> "open"]
  ELSE [fs |-> [q \in DOMAIN tree \cup {p} |-> IF q = p THEN FileNode(b) ELSE tree[q]],
        err |-> ""]

\* a switch that writes every entry that is no directory as a file
ExtractEntryAnyKind(tree, hdr, fault) ==
  LET target == Join(DestDir, hdr.Name) IN
  IF hdr.Typeflag = "dir" THEN
    IF fault = "mkdir" THEN [fs |-> tree, err |-> "mkdir"]
    ELSE MkdirAll(tree, target)
  ELSE IF hdr.Typeflag # "dir" THEN
    IF fault = "mkdir" THEN [fs |-> tree, err |-> "mkdir"]
    ELSE LET parents == MkdirAll(tree, Dir(target)) IN
      IF parents.err # "" THEN parents
      ELSE IF fault = "open" THEN [fs |-> parents.fs, err |-> "open"]
      ELSE IF fault = "copy"
        THEN [fs |-> WriteFile(parents.fs, target, <<>>).fs, err |-> "copy"]
      ELSE WriteFile(parents.fs, target, hdr.Body)
  ELSE [fs |-> tree, err |-> ""]

\* lines 84-96: one archive entry; fault names the call that fails on it
ExtractEntry(tree, hdr, fault) ==
  LET target == Join(DestDir, hdr.Name) IN
  IF hdr.Typeflag = "dir" THEN
    IF fault = "mkdir" THEN [fs |-> tree, err |-> "mkdir"]
    ELSE MkdirAll(tree, target)
  ELSE IF hdr.Typeflag = "reg" THEN
    IF fault = "mkdir" THEN [fs |-> tree, err |-> "mkdir"]
    ELSE LET parents == MkdirAll(tree, Dir(target)) IN
      IF parents.err # "" THEN parents
      ELSE IF fault = "open" THEN [fs |-> parents.fs, err |-> "open"]
      ELSE IF fault = "copy"
        THEN [fs |-> WriteFile(parents.fs, target, <<>>).fs, err |-> "copy"]
      ELSE WriteFile(parents.fs, target, hdr.Body)
  ELSE [fs |-> tree, err |-> ""]

RECURSIVE UntarFromBestEffort(_, _, _, _)
\* a loop that keeps the first error and goes on with the entries after it
UntarFromBestEffort(entries, failAt, fault, tree) ==
  IF entries = <<>> THEN [fs |-> tree, err |-> ""]
  ELSE LET r == IF failAt = 1 /\ fault = "header" THEN [fs |-> tree, err |-> "header"]
                ELSE ExtractEntry(tree, Head(entries), IF failAt = 1 THEN fault ELSE "")
           rest == UntarFromBestEffort(Tail(entries), failAt - 1, fault, r.fs)
       IN [fs |-> rest.fs, err |-> IF r.err # "" THEN r.err ELSE rest.err]

RECURSIVE UntarFrom(_, _, _, _)
\* lines 80-98: the loop over the entries; it returns at the first error.
\* failAt is the position of the entry that meets the fault (0: none)
UntarFrom(entries, failAt, fault, tree) ==
  IF entries = <<>> THEN [fs |-> tree, err |-> ""]
  ELSE IF failAt = 1 /\ fault = "header" THEN [fs |-> tree, err |-> "header"]
  ELSE LET r == ExtractEntry(tree, Head(entries), IF failAt = 1 THEN fault ELSE "")
       IN IF r.err # "" THEN r
          ELSE UntarFrom(Tail(entries), failAt - 1, fault, r.fs)

Faults == {"header", "mkdir", "open", "copy"}

\* UntarGz(archivePath, destDir) on an archive with the given entries
UntarGz(archive, failAt, fault) ==
  /\ LET r == UntarFrom(archive, failAt, fault, fs) IN
       /\ fs' = r.fs
       /\ untarErr' = r.err
  /\ untarArchive' = archive
  /\ untarDone' = TRUE
  /\ untarFault' = [at |-> failAt, kind |-> fault]
  /\ UNCHANGED <<srcVars, valVars, restVars, outFile, pc, signKey, unsignedAllowed, tw,
                 manifestEntries,
                 manifestContent, signature, err, closeLog, closeErr, prevManifest>>

\* the archive CreateItpkg returned, closed without error, is extracted into
\* an empty destination
ExtractBuilt ==
  /\ pc = "returned" /\ err = "" /\ closeErr = ""
  /\ fs = NoFs
  /\ UntarGz(outFile.entries, 0, "")
  /\ UNCHANGED instVars

\* archives from anywhere: names that stay inside, leave, or are the
\* destination; regular files, directories and a link
EntryNames ==
  {<<"a.itml">>, <<"intents", "a.itml">>, <<"..", "app.itml">>, <<".">>,
   <<"intents", "..", "..", "app.itml">>}
Typeflags == {"reg", "dir", "symlink"}
AnyHeaders == {Header(n, t, <<1>>) : n \in EntryNames, t \in Typeflags}
AnyArchives == UNION {[1..n -> AnyHeaders] : n \in 0..MaxEntries}

ExtractAny ==
  /\ ~untarDone
  /\ \E archive \in AnyArchives : \E failAt \in 0..Len(archive) : \E fault \in Faults :
       /\ (failAt = 0 => fault = "header")
       /\ UntarGz(archive, failAt, fault)
  /\ UNCHANGED instVars

\* ---------------------------------------------------------------- install
callVars == <<outFile, pc, signKey, unsignedAllowed, tw, manifestEntries, manifestContent,
              signature, err, closeLog, closeErr, prevManifest>>

\* the archive CreateItpkg writes for the library package with one intent file
IntentPath == <<"intents", "a.itml">>
BuiltArchive(key) ==
  LET json == MarshalIndent(LibManifest)
      file == FileBytes(IntentPath)
      entries == CHOOSE e \in SortSlice(<<[Hash |-> Sha256Hex(json), Path |-> ItpkgJson],
                                          [Hash |-> Sha256Hex(file), Path |-> IntentPath]>>) : TRUE
      content == Serialize(entries)
  IN <<Header(ItpkgJson, "reg", json), Header(IntentPath, "reg", file),
       Header(ManifestSha, "reg", content),
       Header(SignatureName, "reg", SignatureFor(key, TRUE, content).sig)>>
SignedArchive == BuiltArchive(1)
UnsignedArchive == BuiltArchive(NilKey)

\* one byte of the body of entry i changed
Tampered(archive, i) ==
  [archive EXCEPT ![i].Body = [@ EXCEPT ![1] = (@ + 1) % 256]]
TamperedArchives == {Tampered(SignedArchive, i) : i \in 1..Len(SignedArchive)}

\* a tarball that is no package, and an empty one
PlainTarball == <<Header(<<"a.itml">>, "reg", <<1>>)>>
InstallArchives ==
  {SignedArchive, UnsignedArchive, PlainTarball, <<>>} \cup TamperedArchives

RECURSIVE ArchiveBytes(_)
\* the bytes of an archive file: name, type, size and body of every entry
ArchiveBytes(entries) ==
  IF entries = <<>> THEN <<>>
  ELSE LET h == Head(entries) IN
    PathBytes(h.Name) \o <<0, IF h.Typeflag = "reg" THEN 48 ELSE 53, Len(h.Body)>>
      \o h.Body \o ArchiveBytes(Tail(entries))

\* cl.Download(tarball, dlPath): the served bytes are at dlPath, or an error
Download(served, fails) ==
  IF fails THEN [file |-> NoOutFile, err |-> "download"]
  ELSE [file |-> Flushed(served), err |-> ""]

\* cl.SHA256(dlPath): the hex digest of the file, or an error
SHA256(file, fails) ==
  IF fails \/ ~file.exists THEN [sum |-> <<>>, err |-> "sha256"]
  ELSE [sum |-> Sha256Hex(ArchiveBytes(file.entries)), err |-> ""]

\* simple case folding of one character
FoldRune(c) == IF c \in 65..90 THEN c + 32 ELSE c
\* strings.EqualFold
EqualFold(a, b) ==
  Len(a) = Len(b) /\ \A i \in 1..Len(a) : FoldRune(a[i]) = FoldRune(b[i])
\* the digest as a registry that writes capitals declares it
ToUpper(d) == [i \in 1..Len(d) |-> IF d[i] \in 97..122 THEN d[i] - 32 ELSE d[i]]

\* what the registry can answer to the resolve request
Metadata ==
  {[name |-> "@scope/demo", tarball |-> t, sha256 |-> d] :
     t \in {"", "tarball"},
     d \in {<<>>} \cup UNION {{SHA256(Flushed(a), FALSE).sum,
                               ToUpper(SHA256(Flushed(a), FALSE).sum)} : a \in InstallArchives}}

\* lines 34-44: resolve the package; metadata without tarball or digest is refused
InstallResolve(m, getFails) ==
  /\ instPc = "idle"
  /\ meta' = IF getFails THEN NoMeta ELSE m
  /\ instErr' = IF getFails THEN "get"
                ELSE IF m.tarball = "" \/ m.sha256 = <<>> THEN "invalid metadata"
                ELSE ""
  /\ instPc' = IF instErr' = "" THEN "download" ELSE "returned"
  /\ UNCHANGED <<srcVars, untarVars, valVars, restVars, callVars, dlFile, sum>>

\* lines 47-51: download the tarball to dlPath
InstallDownload(served, fails) ==
  /\ instPc = "download"
  /\ LET d == Download(served, fails) IN
       /\ dlFile' = d.file
       /\ instErr' = d.err
       /\ instPc' = IF d.err = "" THEN "checksum" ELSE "returned"
  /\ UNCHANGED <<srcVars, untarVars, valVars, restVars, callVars, meta, sum>>

\* a comparison that lets every digest pass
ChecksumErrorNone(got, expected) == ""

\* lines 56-58: the digest of the download against the declared one
ChecksumError(got, expected) ==
  IF ~EqualFold(got, expected) THEN "checksum mismatch" ELSE ""

\* lines 53-58: verify the checksum
InstallChecksum(shaFails) ==
  /\ instPc = "checksum"
  /\ LET r == SHA256(dlFile, shaFails) IN
       /\ sum' = r.sum
       /\ instErr' = IF r.err # "" THEN r.err ELSE ChecksumError(r.sum, meta.sha256)
       /\ instPc' = IF instErr' = "" THEN "extract" ELSE "returned"
  /\ UNCHANGED <<srcVars, untarVars, valVars, restVars, callVars, meta, dlFile>>

\* lines 60-65: extract the download into targetDir
InstallExtract(failAt, fault) ==
  /\ instPc = "extract"
  /\ UntarGz(dlFile.entries, failAt, fault)
  /\ instErr' = untarErr'
  /\ instPc' = IF untarErr' = "" THEN "record" ELSE "returned"
  /\ UNCHANGED <<meta, dlFile, sum>>

InstalledName == <<".installed.json">>
\* line 75: json.MarshalIndent of the install record, which holds the digest
InstalledJSON(m, digest) == <<123>> \o digest \o <<125>>

\* os.WriteFile: like the open of UntarGz, in a directory that is there
OsWriteFile(tree, p, b) ==
  IF ~IsDirAt(tree, Dir(p)) THEN [fs |-> tree, err |-> "open"]
  ELSE WriteFile(tree, p, b)

\* lines 67-79: write targetDir/.installed.json, its error dropped, return nil
InstallRecord ==
  /\ instPc = "record"
  /\ fs' = OsWriteFile(fs, Join(DestDir, InstalledName), InstalledJSON(meta, sum)).fs
  /\ instErr' = ""
  /\ instPc' = "returned"
  /\ UNCHANGED <<srcVars, valVars, restVars, callVars, untarArchive, untarErr, untarDone,
                 untarFault, meta, dlFile, sum>>

\* ------------------------------------------------------------- validators
\* manifests with every rule kept or broken
NetworkPolicies ==
  {JNull, JString, JObject(NoFields), NetworkDeny}
PolicyTrees ==
  {JNull, PoliciesEmpty, JObject([security |-> JString])}
    \cup {JObject([security |-> JObject(NoFields)])}
    \cup {JObject([security |-> JObject([network |-> n])]) : n \in NetworkPolicies}
AnyManifests ==
  [Name : {"", "@scope/demo"}, Version : {"", "0.1.0"}, ItmlVersion : {"", "0.1"},
   Type : {"", "app", "lib"}, Entry : {<<>>, <<"app.itml">>}, Policies : PolicyTrees]

\* source trees: the entry file and the required and recommended directories,
\* there or not; policies can be a regular file
RecommendedDirs == {<<"schemas">>, <<"tests">>, <<".ci">>, <<"assets">>}
AnyTreeFiles == SUBSET {<<"app.itml">>, <<"policies">>}
AnyTreeDirs == SUBSET (RequiredDirs \cup RecommendedDirs)

SourceTree == [files |-> DOMAIN srcFiles \cup {ItpkgJson}, dirs |-> srcDirs]

\* ValidateManifest(manifest, srcDir) called on the manifest of itpkg.json
CallValidateManifest ==
  /\ "manifest" \notin validated
  /\ validated' = validated \cup {"manifest"}
  /\ manifestErr' = ValidateManifest(itpkgFile.manifest, SourceTree)
  /\ UNCHANGED <<srcVars, untarVars, callVars, instVars, restVars, structureErrs, warnings>>

\* ValidateStructure(srcDir, manifest) called on the tree
CallValidateStructure ==
  /\ "structure" \notin validated
  /\ validated' = validated \cup {"structure"}
  /\ structureErrs' = ValidateStructure(SourceTree, itpkgFile.manifest)
  /\ warnings' = StructureWarnings(SourceTree, itpkgFile.manifest)
  /\ UNCHANGED <<srcVars, untarVars, callVars, instVars, restVars, manifestErr>>

\* ------------------------------------------------------------ TarGzToPath
\* what is not the state of a TarGzToPath call
exceptTg == <<untarVars, valVars, instVars, callVars, httpVars, nameVars, cmdVars, regVars>>

\* tar: the header and body of a file, the padding that fills its last
\* block, the two empty blocks that end an archive
TarEntry(rel, content) == PathBytes(rel) \o <<0, Len(content)>> \o content
TarPadding == <<0>>
TarTrailer == <<0, 0>>

\* gzip: the stream header, a deflate block of the bytes held so far, the
\* footer with the size of all bytes written
GzipHeader == <<31, 139>>
Block(data) == <<Len(data)>> \o data
GzipFooter(size) == <<255, size>>

\* gz.Write: the first write sends the header to the file, the bytes stay
\* in the compressor
GzWrite(g, file, data) ==
  [gz |-> [wroteHeader |-> TRUE, buf |-> g.buf \o data, size |-> g.size + Len(data)],
   file |-> IF g.wroteHeader THEN file ELSE file \o GzipHeader]

\* gz.Flush: everything held so far is compressed out to the file
GzFlush(g, file) ==
  LET w == GzWrite(g, file, <<>>) IN
    [gz |-> [w.gz EXCEPT !.buf = <<>>], file |-> w.file \o Block(w.gz.buf)]

\* gz.Close: the last block and the footer
GzClose(g, file) ==
  LET f == GzFlush(g, file) IN [gz |-> f.gz, file |-> f.file \o GzipFooter(f.gz.size)]

\* the deferred calls of lines 21-39, last registered first: tw.Close writes
\* the padding owed and the trailer, gz.Close ends the stream, f.Close
CloseAll(g, owed, file) ==
  LET t == GzWrite(g, file, (IF owed THEN TarPadding ELSE <<>>) \o TarTrailer)
  IN GzClose(t.gz, t.file).file

\* lines 17-39: os.Create(outputPath), the gzip and the tar writer
TarGzCreate(createFails) ==
  /\ tgPc = "idle"
  /\ tgErr' = IF createFails THEN "create" ELSE ""
  /\ tgPc' = IF createFails THEN "returned" ELSE "walk"
  /\ tgFile' = IF createFails THEN tgFile ELSE [exists |-> TRUE, bytes |-> <<>>]
  /\ UNCHANGED <<srcVars, exceptTg, tgGz, tgPad, tgSum>>

\* the regular files the walk meets: every file of the tree and, when
\* outputPath lies in srcDir, the file being written
TarGzWalkFiles == DOMAIN srcFiles \cup (IF outInside THEN {OutRel} ELSE {})

RECURSIVE TarGzWalkFrom(_, _, _)
\* lines 41-75: the callback on the files in visiting order; WriteHeader
\* first writes the padding owed for the file before; the file at position
\* failAt (0: none) cannot be opened
TarGzWalkFrom(order, failAt, st) ==
  IF order = <<>> THEN st
  ELSE LET rel == Head(order) IN
    IF outInside /\ rel = OutRel THEN TarGzWalkFrom(Tail(order), failAt - 1, st)
    ELSE IF failAt = 1 THEN [st EXCEPT !.err = "walk"]
    ELSE LET w == GzWrite(st.gz, st.file,
                          (IF st.pad THEN TarPadding ELSE <<>>) \o TarEntry(rel, srcFiles[rel]))
         IN TarGzWalkFrom(Tail(order), failAt - 1,
                          [st EXCEPT !.gz = w.gz, !.file = w.file, !.pad = TRUE])

\* lines 41-78: add every file; an error returns through the deferred calls
TarGzWalk(order, failAt) ==
  /\ tgPc = "walk"
  /\ LET st == TarGzWalkFrom(order, failAt,
                             [gz |-> tgGz, file |-> tgFile.bytes, pad |-> tgPad, err |-> ""])
     IN /\ tgErr' = st.err
        /\ tgGz' = st.gz
        /\ tgPad' = st.pad
        /\ tgPc' = IF st.err = "" THEN "flush" ELSE "returned"
        /\ tgFile' = [exists |-> TRUE,
                      bytes |-> IF st.err = "" THEN st.file
                                ELSE CloseAll(st.gz, st.pad, st.file)]
  /\ UNCHANGED <<srcVars, exceptTg, tgSum>>

\* lines 81-86: gz.Flush, then tw.Flush, whose padding stays in the compressor
TarGzFlush(flushFails) ==
  /\ tgPc = "flush"
  /\ LET f == GzFlush(tgGz, tgFile.bytes)
         t == GzWrite(f.gz, f.file, IF tgPad THEN TarPadding ELSE <<>>)
     IN IF flushFails
          THEN /\ tgErr' = "flush"
               /\ tgPc' = "returned"
               /\ tgFile' = [exists |-> TRUE, bytes |-> CloseAll(tgGz, tgPad, tgFile.bytes)]
               /\ UNCHANGED <<tgGz, tgPad>>
          ELSE /\ tgErr' = ""
               /\ tgPc' = "hash"
               /\ tgGz' = t.gz
               /\ tgPad' = FALSE
               /\ tgFile' = [exists |-> TRUE, bytes |-> t.file]
  /\ UNCHANGED <<srcVars, exceptTg, tgSum>>

\* lines 88-95: f.Seek(0, 0) and the digest of what the file holds then
HashOfFile(bytes) == Sha256Hex(bytes)

\* lines 88-96 and the deferred calls: hash the file, return outputPath and
\* the digest, then close the tar writer, the gzip writer and the file; a
\* failing Close becomes the returned error
TarGzReturn(hashFails, closeFails) ==
  /\ tgPc = "hash"
  /\ LET closed == CloseAll(tgGz, tgPad, tgFile.bytes) IN
       /\ tgFile' = [exists |-> TRUE, bytes |-> closed]
       /\ tgSum' = IF hashFails THEN <<>> ELSE HashOfFile(tgFile.bytes)
  /\ tgErr' = IF hashFails THEN "hash" ELSE IF closeFails THEN "close" ELSE ""
  /\ tgPc' = "returned"
  /\ UNCHANGED <<srcVars, exceptTg, tgGz, tgPad>>

\* ------------------------------------------------------------ httpclient
\* what is not the state of a Client.Get call
exceptHttp == <<untarVars, valVars, instVars, callVars, tgVars, nameVars, cmdVars, regVars>>

\* how one attempt ends: a transport error, or the status of the response
TransportError == 0
Outcomes == {TransportError, 200, 401, 404, 500, 503}
\* SetRetryCount
RetryCount == 3

ShouldRetryAnyError(outcome) == outcome = TransportError \/ outcome >= 400
\* the retry condition: err != nil || resp.StatusCode() >= 500
ShouldRetry(outcome) == outcome = TransportError \/ outcome >= 500

\* resp.IsError()
IsError(outcome) == outcome > 399

\* the attempts the request makes against a server that answers `answers`:
\* attempt 0 and up to RetryCount more while the retry condition holds
RECURSIVE Backoff(_, _)
Backoff(answers, attempt) ==
  IF ShouldRetry(answers[attempt + 1]) /\ attempt < RetryCount
  THEN Backoff(answers, attempt + 1)
  ELSE attempt + 1

\* Client.Get: the request with its retries, then the error from the last
\* attempt
Get(answers) ==
  LET made == Backoff(answers, 0)
      last == answers[made]
  IN /\ httpPc' = "returned"
     /\ httpLog' = SubSeq(answers, 1, made)
     /\ httpErr' = IF last = TransportError THEN "network error"
                   ELSE IF IsError(last) THEN "GET: status"
                   ELSE ""
     /\ UNCHANGED <<srcVars, exceptHttp>>

\* ---------------------------------------------------- install: targetDir
\* what is not the state of the target of an install
exceptName == <<untarVars, valVars, instVars, callVars, tgVars, httpVars, cmdVars, regVars>>

\* characters a name can be made of: a letter, the dot, the at sign and the
\* hyphen, which the sanitizer keeps, and the slash and the space, which it
\* does not
NameChars == {"a", ".", "@", "-", "/", " "}
Kept == {"a", ".", "@", "-"}
RegistryNames == UNION {[1..n -> NameChars] : n \in 0..MaxName}

RECURSIVE ReplaceAllString(_, _)
\* filenameSanitizer.ReplaceAllString(s, "-"): every longest run of
\* characters outside [a-zA-Z0-9._@-] becomes one hyphen
ReplaceAllString(s, inRun) ==
  IF s = <<>> THEN <<>>
  ELSE IF Head(s) \in Kept THEN <<Head(s)>> \o ReplaceAllString(Tail(s), FALSE)
  ELSE IF inRun THEN ReplaceAllString(Tail(s), TRUE)
  ELSE <<"-">> \o ReplaceAllString(Tail(s), TRUE)

sanitizeFilename(s) == ReplaceAllString(s, FALSE)

RECURSIVE Text(_)
\* the string of a sequence of characters
Text(chars) == IF chars = <<>> THEN "" ELSE Head(chars) \o Text(Tail(chars))

\* a string as the one element of a path; filepath.Join leaves out an
\* empty element
Element(str) == IF str = "" THEN <<>> ELSE <<str>>

\* lines 60-76 of install: where UntarGz extracts to and where the install
\* record goes, for the name the registry returned
InstallTarget(name) ==
  /\ instName' = name
  /\ targetDir' = Join(DestDir, Element(Text(sanitizeFilename(name))))
  /\ manPath' = Join(targetDir', InstalledName)
  /\ UNCHANGED <<srcVars, exceptName>>

\* -------------------------------------------------------- package command
\* the key in the file INTENT_SIGN_KEY names
EnvKey == 2

\* lines 104-118: the signing key the command hands to the engine; with
\* --unsigned no key is looked for
LoadedKey(unsigned, flagKey, envKey, loadFails) ==
  LET signKeyPath == IF flagKey # NilKey THEN flagKey ELSE envKey IN
  IF unsigned THEN [key |-> NilKey, err |-> ""]
  ELSE IF signKeyPath = NilKey THEN [key |-> NilKey, err |-> "signing key required"]
  ELSE IF loadFails THEN [key |-> NilKey, err |-> "failed to load signing key"]
  ELSE [key |-> signKeyPath, err |-> ""]

\* lines 102-155: load the key, then pack.CreateItpkg(packageDir,
\* packagePath, signKey, unsigned)
PackageCmd(unsigned, flagKey, envKey, loadFails, createFails) ==
  LET loaded == LoadedKey(unsigned, flagKey, envKey, loadFails) IN
  /\ cmdUnsigned' = unsigned
  /\ cmdKey' = IF flagKey # NilKey THEN flagKey ELSE envKey
  /\ cmdErr' = loaded.err
  /\ IF loaded.err # ""
       THEN /\ pc \in {"idle", "returned"}
            /\ UNCHANGED <<srcVars, untarVars, valVars, engineRest, instVars, callVars>>
       ELSE CreateItpkg(loaded.key, unsigned, createFails)
  /\ UNCHANGED regVars

\* ----------------------------------------------------------- mock registry
\* what is not the state of the mock registry
exceptReg == <<untarVars, valVars, instVars, callVars, tgVars, httpVars, nameVars, cmdVars>>

\* file names of uploads and specs of resolves, by character
Filenames ==
  {<<"a", "-", "1">>, <<"a", "@", "1", "-", "2">>, <<"a", "-", "1", "@", "2">>, <<"a">>}
ResolveSpecs == {<<"@", "a">>, <<"a", "@", "1">>, <<"a", "@", "1", "@", "2">>}

RECURSIVE Split(_, _)
\* strings.Split
Split(s, sep) ==
  IF \A i \in 1..Len(s) : s[i] # sep THEN <<s>>
  ELSE LET i == CHOOSE j \in 1..Len(s) : s[j] = sep /\ \A k \in 1..(j - 1) : s[k] # sep
       IN <<SubSeq(s, 1, i - 1)>> \o Split(SubSeq(s, i + 1, Len(s)), sep)

RECURSIVE StringsJoin(_, _)
\* strings.Join
StringsJoin(parts, sep) ==
  IF parts = <<>> THEN <<>>
  ELSE IF Len(parts) = 1 THEN parts[1]
  ELSE parts[1] \o <<sep>> \o StringsJoin(Tail(parts), sep)

\* the last part is the version, the parts before it the name
parsePackageName(filename) ==
  LET parts == Split(filename, "-") IN
  IF Len(parts) < 2 THEN [name |-> <<>>, version |-> <<>>, err |-> "invalid"]
  ELSE [name |-> StringsJoin(SubSeq(parts, 1, Len(parts) - 1), "-"),
        version |-> parts[Len(parts)], err |-> ""]

parseSpec(spec) ==
  LET trimmed == IF spec # <<>> /\ Head(spec) = "@" THEN Tail(spec) ELSE spec
      parts == Split(trimmed, "@")
  IN IF Len(parts) = 1 THEN [name |-> parts[1], version |-> <<>>]
     ELSE [name |-> parts[1], version |-> parts[2]]

PkgKey(name, version) == name \o <<"@">> \o version
TarballPath(name, version) == name \o <<"/">> \o version

HasPrefix(s, prefix) == Len(s) >= Len(prefix) /\ SubSeq(s, 1, Len(prefix)) = prefix

\* the version published last among the keys that begin with name@
findLatestVersion(packages, name) ==
  LET keys == {k \in DOMAIN packages : HasPrefix(k, name \o <<"@">>)} IN
  IF keys = {} THEN <<>>
  ELSE packages[CHOOSE k \in keys :
                  \A o \in keys : packages[o].PublishedAt <= packages[k].PublishedAt].Version

\* the upload of request r: its bytes and the digest sent with them
UploadOf(r) == [bytes |-> <<r>>, sha256 |-> <<104, r>>]

\* sync.RWMutex
CanLockAlways(mu) == TRUE
CanLock(mu) == mu.writer = 0 /\ mu.readers = {}
CanRLock(mu) == mu.writer = 0

Answered(r, code) == [regReqs EXCEPT ![r].pc = "done", ![r].status = code]
At(r, place) == [regReqs EXCEPT ![r].pc = place]

\* a request reaches its handler; publish, lines 35-78: form, file and file
\* name are checked before the registry is touched
Arrive(r, kind, arg) ==
  /\ regReqs[r].pc = "none"
  /\ LET req == [NoRequest EXCEPT !.kind = kind, !.arg = arg] IN
     regReqs' =
       IF kind = "publish" /\ parsePackageName(arg).err # ""
       THEN [regReqs EXCEPT ![r] = [req EXCEPT !.pc = "done", !.status = 400]]
       ELSE [regReqs EXCEPT ![r] = [req EXCEPT !.pc = "lock"]]
  /\ UNCHANGED <<srcVars, exceptReg, regPackages, regFiles, regMu, regClock>>

\* line 80: registry.mu.Lock()
PublishLock(r) ==
  /\ regReqs[r].kind = "publish" /\ regReqs[r].pc = "lock"
  /\ CanLock(regMu)
  /\ regMu' = [regMu EXCEPT !.writer = r]
  /\ regReqs' = At(r, "check")
  /\ UNCHANGED <<srcVars, exceptReg, regPackages, regFiles, regClock>>

\* lines 84-89: 409 when the key is there, with the deferred Unlock
PublishCheck(r) ==
  /\ regReqs[r].pc = "check"
  /\ LET p == parsePackageName(regReqs[r].arg) IN
     IF PkgKey(p.name, p.version) \in DOMAIN regPackages
     THEN /\ regReqs' = Answered(r, 409)
          /\ regMu' = [regMu EXCEPT !.writer = 0]
     ELSE /\ regReqs' = At(r, "storePackage")
          /\ UNCHANGED regMu
  /\ UNCHANGED <<srcVars, exceptReg, regPackages, regFiles, regClock>>

\* lines 92-99: registry.packages[pkgKey] = &Package{...}
PublishStorePackage(r) ==
  /\ regReqs[r].pc = "storePackage"
  /\ LET p == parsePackageName(regReqs[r].arg)
         pkg == [Name |-> p.name, Version |-> p.version,
                 Tarball |-> TarballPath(p.name, p.version),
                 SHA256 |-> UploadOf(r).sha256, PublishedAt |-> regClock + 1]
     IN regPackages' =
          [k \in DOMAIN regPackages \cup {PkgKey(p.name, p.version)} |->
             IF k = PkgKey(p.name, p.version) THEN pkg ELSE regPackages[k]]
  /\ regClock' = regClock + 1
  /\ regReqs' = At(r, "storeFile")
  /\ UNCHANGED <<srcVars, exceptReg, regFiles, regMu>>

\* lines 100-110: registry.files[tarballPath] = fileContent, answer 200,
\* the deferred Unlock
PublishStoreFile(r) ==
  /\ regReqs[r].pc = "storeFile"
  /\ LET p == parsePackageName(regReqs[r].arg)
         path == TarballPath(p.name, p.version)
     IN regFiles' = [f \in DOMAIN regFiles \cup {path} |->
                       IF f = path THEN UploadOf(r).bytes ELSE regFiles[f]]
  /\ regReqs' = Answered(r, 200)
  /\ regMu' = [regMu EXCEPT !.writer = 0]
  /\ UNCHANGED <<srcVars, exceptReg, regPackages, regClock>>

\* line 124: registry.mu.RLock()
ResolveRLock(r) ==
  /\ regReqs[r].kind = "resolve" /\ regReqs[r].pc = "lock"
  /\ CanRLock(regMu)
  /\ regMu' = [regMu EXCEPT !.readers = @ \cup {r}]
  /\ regReqs' = At(r, "read")
  /\ UNCHANGED <<srcVars, exceptReg, regPackages, regFiles, regClock>>

\* lines 127-150: the latest version when none is given, the lookup, the
\* answer, the deferred RUnlock; saw is the entry answered and whether its
\* file was in registry.files then
ResolveRead(r) ==
  /\ regReqs[r].pc = "read"
  /\ LET s == parseSpec(regReqs[r].arg)
         version == IF s.version = <<>> THEN findLatestVersion(regPackages, s.name)
                    ELSE s.version
         pkgKey == PkgKey(s.name, version)
     IN regReqs' =
          IF version = <<>> \/ pkgKey \notin DOMAIN regPackages THEN Answered(r, 404)
          ELSE [Answered(r, 200) EXCEPT
                  ![r].saw = <<[pkg |-> regPackages[pkgKey],
                                stored |-> regPackages[pkgKey].Tarball \in DOMAIN regFiles]>>]
  /\ regMu' = [regMu EXCEPT !.readers = @ \ {r}]
  /\ UNCHANGED <<srcVars, exceptReg, regPackages, regFiles, regClock>>

\* -------------------------------------------------------- specifications
\* a call with any key or none, with and without leave to go unsigned
Call ==
  \E key \in Keys \cup {NilKey} : \E unsignedOk \in BOOLEAN : \E createFails \in BOOLEAN :
    CreateItpkg(key, unsignedOk, createFails) /\ UNCHANGED <<cmdVars, regVars>>

\* the walk in any order, with or without a file that cannot be read
WalkAny ==
  \E order \in Orders(WalkFiles) : \E failAt \in 0..Len(order) : Walk(order, failAt)

Finish ==
  \E flushFails \in BOOLEAN : \E reached \in {<<>>, tw} :
    FlushAndReturn(flushFails, reached)

Next ==
  \/ Call
  \/ AddManifestJSON
  \/ WalkAny
  \/ SortAndWriteManifest
  \/ Sign
  \/ Finish
  \/ ExtractBuilt

Spec == Init /\ [][Next]_vars

\* UntarGz alone, on archives from anywhere, beside one fixed source tree
InitUntar ==
  /\ Init
  /\ srcFiles = NoFs
  /\ srcDirs = {}
  /\ itpkgFile = Absent
  /\ ~outInside
  /\ outFile = NoOutFile

NextUntar == ExtractAny

SpecUntar == InitUntar /\ [][NextUntar]_vars

\* the install command alone, against any registry answer and any download
InitInstall == InitUntar

Resolve == \E m \in Metadata : \E getFails \in BOOLEAN : InstallResolve(m, getFails)
Fetch == \E served \in InstallArchives : \E fails \in BOOLEAN : InstallDownload(served, fails)
Checksum == \E shaFails \in BOOLEAN : InstallChecksum(shaFails)
Extract ==
  \E failAt \in 0..Len(dlFile.entries) : \E fault \in Faults :
    /\ (failAt = 0 => fault = "header")
    /\ InstallExtract(failAt, fault)

NextInstall ==
  \/ Resolve
  \/ Fetch
  \/ Checksum
  \/ Extract
  \/ InstallRecord

SpecInstall == InitInstall /\ [][NextInstall]_vars


\* the two validators alone, on any manifest and any tree
InitValidate ==
  /\ srcFiles \in {[p \in S |-> FileBytes(p)] : S \in AnyTreeFiles}
  /\ srcDirs \in {D \in AnyTreeDirs : \A f \in DOMAIN srcFiles : f \notin D}
  /\ itpkgFile \in {Holding(m) : m \in AnyManifests}
  /\ outInside = FALSE
  /\ outFile = NoOutFile
  /\ Idle

NextValidate ==
  \/ CallValidateManifest
  \/ CallValidateStructure

SpecValidate == InitValidate /\ [][NextValidate]_vars

\* CreateItpkg on the demo library: two project files, and an itpkg.json
\* that holds name, version and type only or the whole library manifest
HelloPath == <<"intents", "hello.itml">>
SecurityPath == <<"policies", "security.itml">>
DemoTree == [p \in {HelloPath, SecurityPath} |-> FileBytes(p)]
DemoManifest ==
  [Name |-> "@scope/demo", Version |-> "0.1.0", ItmlVersion |-> "",
   Type |-> "lib", Entry |-> <<>>, Policies |-> JNull]

InitScenario ==
  /\ srcFiles = DemoTree
  /\ srcDirs = RequiredDirs
  /\ itpkgFile \in {Holding(DemoManifest), Holding(LibManifest)}
  /\ outInside \in BOOLEAN
  /\ outFile \in {NoOutFile, EarlierArchive}
  /\ Idle

SpecScenario == InitScenario /\ [][Next]_vars

\* TarGzToPath alone, on any source tree; TarGz is the call with outputPath
\* in the temporary directory
InitTarGz ==
  /\ srcFiles \in SourceTrees
  /\ srcDirs = {}
  /\ itpkgFile = Absent
  /\ outInside \in BOOLEAN
  /\ outFile = NoOutFile
  /\ Idle

TgCreate == \E createFails \in BOOLEAN : TarGzCreate(createFails)
TgWalk ==
  \E order \in Orders(TarGzWalkFiles) : \E failAt \in 0..Len(order) : TarGzWalk(order, failAt)
TgFlush == \E flushFails \in BOOLEAN : TarGzFlush(flushFails)
TgReturn == \E hashFails \in BOOLEAN : \E closeFails \in BOOLEAN : TarGzReturn(hashFails, closeFails)

NextTarGz ==
  \/ TgCreate
  \/ TgWalk
  \/ TgFlush
  \/ TgReturn

SpecTarGz == InitTarGz /\ [][NextTarGz]_vars

\* Client.Get alone, against a server that answers in any way
InitHttp ==
  /\ srcFiles = NoFs
  /\ srcDirs = {}
  /\ itpkgFile = Absent
  /\ outInside = FALSE
  /\ outFile = NoOutFile
  /\ Idle

GetAny == \E answers \in [1..(RetryCount + 1) -> Outcomes] : Get(answers)

NextHttp == GetAny

SpecHttp == InitHttp /\ [][NextHttp]_vars

\* the target of install alone, for every name the registry can return
InitTarget == InitHttp

AnyName == \E name \in RegistryNames : InstallTarget(name)

NextTarget == AnyName

SpecTarget == InitTarget /\ [][NextTarget]_vars

\* the package command on the demo tree, with every combination of
\* --unsigned, --sign-key and INTENT_SIGN_KEY
InitPackage ==
  /\ srcFiles = DemoTree
  /\ srcDirs = RequiredDirs
  /\ itpkgFile \in {Holding(DemoManifest), Holding(LibManifest)}
  /\ outInside = FALSE
  /\ outFile = NoOutFile
  /\ Idle

Package ==
  \E unsigned \in BOOLEAN : \E flagKey \in Keys \cup {NilKey} : \E envKey \in {NilKey, EnvKey} :
    \E loadFails \in BOOLEAN : \E createFails \in BOOLEAN :
      PackageCmd(unsigned, flagKey, envKey, loadFails, createFails)

NextPackage ==
  \/ Package
  \/ AddManifestJSON
  \/ WalkAny
  \/ SortAndWriteManifest
  \/ Sign
  \/ Finish

SpecPackage == InitPackage /\ [][NextPackage]_vars

\* the mock registry alone, serving requests at the same time
InitRegistry == InitHttp

Requests == 1..MaxReqs
ArrivePublish == \E r \in Requests : \E f \in Filenames : Arrive(r, "publish", f)
ArriveResolve == \E r \in Requests : \E s \in ResolveSpecs : Arrive(r, "resolve", s)
Lock == \E r \in Requests : PublishLock(r)
Check == \E r \in Requests : PublishCheck(r)
StorePackage == \E r \in Requests : PublishStorePackage(r)
StoreFile == \E r \in Requests : PublishStoreFile(r)
RLock == \E r \in Requests : ResolveRLock(r)
Read == \E r \in Requests : ResolveRead(r)

NextRegistry ==
  \/ ArrivePublish
  \/ ArriveResolve
  \/ Lock
  \/ Check
  \/ StorePackage
  \/ StoreFile
  \/ RLock
  \/ Read

SpecRegistry == InitRegistry /\ [][NextRegistry]_vars

\* ----------------------------------------------------------------- claims
Returned == pc = "returned"
Succeeded == pc = "returned" /\ err = ""
ValidationErrors ==
  {"failed to read itpkg.json", "manifest validation failed",
   "structure validation failed"}

IsPrefix(a, b) == Len(a) <= Len(b) /\ SubSeq(b, 1, Len(a)) = a
StrictlyInside(p) == IsPrefix(DestDir, p) /\ p # DestDir

\* the entries of an archive that bear a name
Named(entries, name) == {i \in 1..Len(entries) : entries[i].Name = name}

\* an entry that makes something at a place that is not below destDir
Escapes(hdr) ==
  hdr.Typeflag \in {"reg", "dir"} /\ ~StrictlyInside(Join(DestDir, hdr.Name))

\* C1: whatever UntarGz makes lies in destDir, and an archive holding an
\* entry that resolves outside destDir or to destDir itself is refused with
\* an error
C1_ExtractionStaysInside ==
  untarDone =>
    /\ \A p \in DOMAIN fs : IsPrefix(DestDir, p)
    /\ (\E i \in 1..Len(untarArchive) : Escapes(untarArchive[i])) => untarErr # ""

\* what a successful call leaves at outputPath
WholeArchive(entries) ==
  /\ Len(entries) >= 3
  /\ entries[1].Name = ItpkgJson
  /\ entries[Len(entries) - 1].Name = ManifestSha
  /\ entries[Len(entries)].Name = SignatureName

\* C2: when CreateItpkg returns an error, the file at outputPath is absent
\* or a whole archive, and at a signing error nothing was written yet
C2_NoPartialArchive ==
  (Returned /\ err # "") =>
    /\ outFile.exists => (outFile = EarlierArchive \/ WholeArchive(outFile.entries))
    /\ err = "signing key not provided" => tw = <<>>

\* C3: a call that ends with a read or validation error leaves the file at
\* outputPath as it was
C3_ValidationFailureWritesNothing ==
  [][(pc' = "returned" /\ err' \in ValidationErrors) => outFile' = outFile]_vars

C3_Witness ==
  /\ Returned /\ err = "structure validation failed"
  /\ <<"policies">> \notin srcDirs
  /\ outFile = EarlierArchive

\* the body of the MANIFEST.sha256 entry the call wrote (next to last)
WrittenManifest == tw[Len(tw) - 1].Body

\* C4: after a successful call MANIFEST.sha256 holds the lines of the
\* entries, each path strictly below the next in byte order
C4_ManifestStrictlySorted ==
  Succeeded =>
    /\ tw[Len(tw) - 1].Name = ManifestSha
    /\ WrittenManifest = Serialize(manifestEntries)
    /\ \A i \in 1..Len(manifestEntries) : \A j \in (i + 1)..Len(manifestEntries) :
         BytesLess(PathBytes(manifestEntries[i].Path), PathBytes(manifestEntries[j].Path))

\* the walk met two project files in falling order of their paths
WalkedUnsorted ==
  \E i \in 2..Len(tw) : \E j \in (i + 1)..Len(tw) :
    /\ tw[i].Name \in DOMAIN srcFiles /\ tw[j].Name \in DOMAIN srcFiles
    /\ j <= Len(tw) - 2
    /\ BytesLess(PathBytes(tw[j].Name), PathBytes(tw[i].Name))

C4_Witness == Succeeded /\ Len(manifestEntries) >= 3 /\ WalkedUnsorted

\* C5: MANIFEST.sha256 never lists the path MANIFEST.sha256
C5_ManifestNeverListsItself ==
  Succeeded => \A i \in 1..Len(manifestEntries) : manifestEntries[i].Path # ManifestSha

\* C6: after the built archive is extracted, every path MANIFEST.sha256
\* lists is a file whose digest is the listed one
C6_SelfConsistent ==
  (Succeeded /\ untarDone /\ untarErr = "" /\ untarArchive = outFile.entries) =>
    \A i \in 1..Len(manifestEntries) :
      LET target == Join(DestDir, manifestEntries[i].Path) IN
        /\ target \in DOMAIN fs
        /\ fs[target].kind = "file"
        /\ Sha256Hex(fs[target].body) = manifestEntries[i].Hash

\* C7: a successful call after an earlier successful call on the same tree
\* writes the same MANIFEST.sha256 bytes
C7_Deterministic ==
  (Succeeded /\ prevManifest # <<>>) => manifestContent = prevManifest

C7_Witness ==
  /\ Succeeded /\ prevManifest # <<>>
  /\ outInside
  /\ Cardinality(DOMAIN srcFiles) >= 2
  /\ WalkedUnsorted

C9_EntryOrder ==
  /\ pc \in {"idle", "addManifest", "walk", "sort", "sign"} => signature = <<>>
  /\ Succeeded =>
       LET n == Len(tw) IN
         /\ n = Cardinality(DOMAIN srcFiles) + 3
         /\ tw[1].Name = ItpkgJson
         /\ {tw[i].Name : i \in 2..(n - 2)} = DOMAIN srcFiles
         /\ tw[n - 1].Name = ManifestSha
         /\ tw[n].Name = SignatureName
         /\ {manifestEntries[i].Path : i \in 1..Len(manifestEntries)}
              = DOMAIN srcFiles \cup {ItpkgJson}
         /\ \A i \in 1..Len(manifestEntries) : \A j \in (i + 1)..Len(manifestEntries) :
              ~BytesLess(PathBytes(manifestEntries[j].Path),
                         PathBytes(manifestEntries[i].Path))
         /\ signKey # NilKey =>
              signature = <<115, signKey>> \o Serialize(manifestEntries)

C9_Witness ==
  /\ Succeeded /\ signKey # NilKey /\ outInside
  /\ Cardinality(DOMAIN srcFiles) = MaxFiles

\* C10: a successful call leaves exactly one entry named itpkg.json, one
\* named MANIFEST.sha256 and one named SIGNATURE
C10_OneOfEach ==
  Succeeded =>
    /\ Cardinality(Named(outFile.entries, ItpkgJson)) = 1
    /\ Cardinality(Named(outFile.entries, ManifestSha)) = 1
    /\ Cardinality(Named(outFile.entries, SignatureName)) = 1

\* the three files the engine writes itself
EngineOwned == {ItpkgJson, ManifestSha, SignatureName}

\* the archive of the last successful call was extracted into an empty directory
BuiltExtracted == Succeeded /\ untarDone /\ untarErr = "" /\ untarArchive = outFile.entries

\* the regular files below destDir that are not engine-owned, by relative path
ExtractedProjectFiles ==
  {q \in {SubSeq(p, 2, Len(p)) : p \in {r \in DOMAIN fs : fs[r].kind = "file"}} :
     q \notin EngineOwned}

\* the regular files in srcDir when the call began: the project files and,
\* when outputPath lies in srcDir, the archive an earlier call left there
TreeFilesAtCall ==
  DOMAIN srcFiles \cup (IF outInside /\ prevManifest # <<>> THEN {OutRel} ELSE {})

\* C11 as stated: extracting the built archive yields exactly the regular
\* files of the source tree, engine-owned files apart, with the same bytes
C11_RoundTrip ==
  BuiltExtracted =>
    /\ ExtractedProjectFiles = TreeFilesAtCall \ EngineOwned
    /\ \A q \in ExtractedProjectFiles : q \in DOMAIN srcFiles =>
         fs[DestDir \o q].body = srcFiles[q]

\* C11 amended: extracting the built archive yields exactly the regular files
\* of the source tree with the same bytes, apart from the engine-owned files
\* and from the file at outputPath when it lies in the source tree
C11_RoundTripApartFromOutput ==
  BuiltExtracted =>
    /\ ExtractedProjectFiles = (TreeFilesAtCall \ {OutRel}) \ EngineOwned
    /\ \A q \in ExtractedProjectFiles : fs[DestDir \o q].body = srcFiles[q]

C11_Witness ==
  /\ BuiltExtracted
  /\ outInside /\ prevManifest # <<>>
  /\ <<"intents", "a.itml">> \in ExtractedProjectFiles
  /\ Cardinality(ExtractedProjectFiles) >= 2

\* the install command has returned
Installed == instPc = "returned"

\* two hex digests that stand for the same value, capitals or not
SameDigest(a, b) ==
  [i \in 1..Len(a) |-> IF a[i] \in 65..90 THEN a[i] + 32 ELSE a[i]]
    = [i \in 1..Len(b) |-> IF b[i] \in 65..90 THEN b[i] + 32 ELSE b[i]]

InstalledPath == DestDir \o <<".installed.json">>

\* C12: when the digest computed from the download differs from the declared
\* one, install returns 'checksum mismatch', nothing is extracted and no
\* .installed.json is written; UntarGz runs only after the comparison passed
C12_MismatchAbortsBeforeExtraction ==
  /\ (Installed /\ sum # <<>> /\ ~SameDigest(sum, meta.sha256)) =>
       instErr = "checksum mismatch"
  /\ instErr = "checksum mismatch" =>
       /\ ~untarDone
       /\ fs = NoFs
       /\ InstalledPath \notin DOMAIN fs
  /\ untarDone => (sum # <<>> /\ SameDigest(sum, meta.sha256))
  /\ InstalledPath \in DOMAIN fs => (untarDone /\ untarErr = "")

C12_Witness ==
  /\ Installed /\ instErr = "checksum mismatch"
  /\ dlFile.entries = Tampered(SignedArchive, 2)
  /\ meta.sha256 = <<104>> \o ArchiveBytes(SignedArchive)

\* the body of the one entry of that name
BodyOf(archive, name) == archive[CHOOSE i \in Named(archive, name) : TRUE].Body

\* MANIFEST.sha256 lists every other file of the archive, sorted, with its digest
ChecksumsVerify(archive) ==
  /\ Cardinality(Named(archive, ManifestSha)) = 1
  /\ LET files == SelectSeq(archive, LAMBDA h : h.Name \notin {ManifestSha, SignatureName})
         entries == [i \in 1..Len(files) |->
                       [Hash |-> <<104>> \o files[i].Body, Path |-> files[i].Name]]
     IN \E sorted \in SortSlice(entries) : BodyOf(archive, ManifestSha) = Serialize(sorted)

\* SIGNATURE is the signature of MANIFEST.sha256 under a trusted key
SignatureVerifies(archive) ==
  /\ Cardinality(Named(archive, ManifestSha)) = 1
  /\ Cardinality(Named(archive, SignatureName)) = 1
  /\ \E key \in Keys :
       BodyOf(archive, SignatureName) = <<115, key>> \o BodyOf(archive, ManifestSha)

\* C13: install calls UntarGz on an archive only after the archive's file
\* checksums and its Ed25519 signature were verified
C13_ExtractOnlyVerified ==
  untarDone => (ChecksumsVerify(untarArchive) /\ SignatureVerifies(untarArchive))

\* the kinds of integrity error: a modified file, a failed signature
IntegrityErrors == {"modified", "signature verification failed"}

\* C14: a signed archive with one byte of a packaged file, of MANIFEST.sha256
\* or of SIGNATURE changed is never accepted, and install ends with an
\* integrity error of an identifiable kind
C14_TamperDetected ==
  (dlFile.exists /\ dlFile.entries \in TamperedArchives /\ sum # <<>>) =>
    /\ instPc \notin {"extract", "record"}
    /\ ~untarDone
    /\ Installed => instErr \in IntegrityErrors

\* C15: install, which has no flag to accept unsigned packages, never
\* extracts an archive whose SIGNATURE is the UNSIGNED marker
C15_UnsignedGate ==
  untarDone =>
    \A i \in Named(untarArchive, SignatureName) : untarArchive[i].Body # Unsigned

\* the manifest and the tree the validators were called on
TheManifest == itpkgFile.manifest
IsApp == TheManifest.Type \in {"", "app"}
EntryThere == TheManifest.Entry \in DOMAIN srcFiles \cup srcDirs

\* name, version, itmlVersion and policies are there
BasicsThere ==
  /\ TheManifest.Name # "" /\ TheManifest.Version # "" /\ TheManifest.ItmlVersion # ""
  /\ TheManifest.Policies.kind # "null"

\* the network policy of the manifest is an object with something in it
NetworkPolicyThere ==
  LET p == TheManifest.Policies IN
    /\ p.kind = "object" /\ "security" \in DOMAIN p.fields
    /\ p.fields["security"].kind = "object"
    /\ "network" \in DOMAIN p.fields["security"].fields
    /\ p.fields["security"].fields["network"].kind = "object"
    /\ DOMAIN p.fields["security"].fields["network"].fields # {}

\* the rules of ValidateManifest the manifest breaks, by their messages
Violations ==
  (IF TheManifest.Name = "" THEN {"name is required"} ELSE {})
  \cup (IF TheManifest.Version = "" THEN {"version is required"} ELSE {})
  \cup (IF TheManifest.ItmlVersion = "" THEN {"itmlVersion is required"} ELSE {})
  \cup (IF IsApp /\ TheManifest.Entry = <<>>
          THEN {"entry is required for app packages"} ELSE {})
  \cup (IF IsApp /\ TheManifest.Entry # <<>> /\ ~EntryThere
          THEN {"entry file not found"} ELSE {})
  \cup (IF TheManifest.Policies.kind = "null" THEN {"policies are required"} ELSE {})

\* C16: the error of ValidateManifest names every rule the manifest breaks
C16_ReportsEveryViolation ==
  "manifest" \in validated => Violations \subseteq {manifestErr}

C18_NetworkPolicy ==
  "manifest" \in validated =>
    /\ (IsApp /\ ~NetworkPolicyThere) => manifestErr # ""
    /\ (IsApp /\ BasicsThere /\ EntryThere /\ TheManifest.Policies = PoliciesFull) =>
         manifestErr = ""
    /\ (TheManifest.Type = "lib" /\ BasicsThere) => manifestErr = ""

\* the errors ValidateStructure owes: required directories that are no
\* directory of the tree, and the declared entry of an app package that is absent
StructureErrorsDue ==
  {d[1] : d \in {r \in RequiredDirs : r \notin srcDirs}}
    \cup (IF IsApp /\ TheManifest.Entry # <<>> /\ ~EntryThere
            THEN {"entry file not found"} ELSE {})

\* C19: ValidateStructure fails exactly when a required directory is no
\* directory of the tree or the declared entry of an app package is absent,
\* and then reports all of these; missing recommended directories and missing
\* tests only give warnings
C19_StructureErrors ==
  "structure" \in validated =>
    /\ {structureErrs[i] : i \in 1..Len(structureErrs)} = StructureErrorsDue
    /\ structureErrs = <<>> =>
         \A d \in RecommendedDirs : d \notin srcDirs =>
           \E i \in 1..Len(warnings) : warnings[i] = d[1]

\* the call was given a key or leave to go unsigned and met no failing
\* create, read or flush
FairCall ==
  /\ Returned
  /\ signKey # NilKey \/ unsignedAllowed
  /\ err \notin {"create", "failed to add project files", "flush"}

\* the place of a path in the checksum manifest (0: not listed)
PlaceOf(path) ==
  IF \E i \in 1..Len(manifestEntries) : manifestEntries[i].Path = path
    THEN CHOOSE i \in 1..Len(manifestEntries) : manifestEntries[i].Path = path
    ELSE 0

\* the call succeeded with three checksum entries, hello before security
DemoBuilt ==
  /\ err = ""
  /\ Len(manifestEntries) = 3
  /\ PlaceOf(HelloPath) > 0
  /\ PlaceOf(HelloPath) < PlaceOf(SecurityPath)

\* C20 as stated: with the manifest {name, version, type lib} and nothing
\* else the build of the demo tree succeeds with three checksum entries,
\* intents/hello.itml before policies/security.itml
C20_Scenario ==
  (FairCall /\ srcFiles = DemoTree /\ itpkgFile = Holding(DemoManifest)) => DemoBuilt

\* C20 amended: with the manifest that also holds itmlVersion and policies
\* the build of the demo tree succeeds with three checksum entries,
\* intents/hello.itml before policies/security.itml
C20_ScenarioWholeManifest ==
  (FairCall /\ srcFiles = DemoTree /\ itpkgFile = Holding(LibManifest)) => DemoBuilt

C20_Witness ==
  /\ Succeeded /\ srcFiles = DemoTree /\ itpkgFile = Holding(LibManifest)
  /\ Len(manifestEntries) = 3
  /\ tw[2].Name = SecurityPath /\ tw[3].Name = HelloPath

\* the paths the first k entries of an archive can make: the targets of the
\* directory and regular-file entries and the directories on the way to them
MadeBy(archive, k) ==
  UNION {{SubSeq(t, 1, n) : n \in 1..Len(t)} :
           t \in {Join(DestDir, archive[i].Name) :
                    i \in {j \in 1..k : archive[j].Typeflag \in {"reg", "dir"}}}}

\* the archive extracts without error when no call fails from outside
ExtractsCleanly(archive) == UntarFrom(archive, 0, "", NoFs).err = ""

\* the first entry at which the extraction fails of itself
FirstFailing(archive) ==
  CHOOSE k \in 1..Len(archive) :
    /\ ~ExtractsCleanly(SubSeq(archive, 1, k))
    /\ \A j \in 1..(k - 1) : ExtractsCleanly(SubSeq(archive, 1, j))

\* the fault strikes a call that UntarGz makes for the entry
FaultStrikes(hdr, kind) ==
  \/ kind = "header"
  \/ kind = "mkdir" /\ hdr.Typeflag \in {"reg", "dir"}
  \/ kind \in {"open", "copy"} /\ hdr.Typeflag = "reg"

\* C21: UntarGz returns the error of the first entry that fails, and nothing
\* in destDir comes from an entry after that one
C21_AbortsAtFirstFailure ==
  untarDone =>
    /\ (ExtractsCleanly(untarArchive) /\ untarFault.at >= 1
          /\ FaultStrikes(untarArchive[untarFault.at], untarFault.kind)) =>
         /\ untarErr = untarFault.kind
         /\ DOMAIN fs \subseteq MadeBy(untarArchive, untarFault.at)
    /\ (~ExtractsCleanly(untarArchive) /\ untarFault.at = 0) =>
         /\ untarErr # ""
         /\ DOMAIN fs \subseteq MadeBy(untarArchive, FirstFailing(untarArchive))

C21_Witness ==
  /\ untarDone /\ untarErr = "copy" /\ untarFault.at = 1
  /\ Len(untarArchive) = 2
  /\ untarArchive[1] = Header(<<"a.itml">>, "reg", <<1>>)
  /\ untarArchive[2] = Header(<<"intents", "a.itml">>, "reg", <<1>>)
  /\ DestDir \o <<"a.itml">> \in DOMAIN fs

\* the directory and regular-file entries of an archive, in their order
Supported(archive) == SelectSeq(archive, LAMBDA h : h.Typeflag \in {"reg", "dir"})

\* C22: UntarGz makes something only for directory and regular-file entries;
\* an entry of another kind is passed over and the entries after it are
\* extracted as if it were not there
C22_OtherKindsSkipped ==
  untarDone =>
    /\ DOMAIN fs \subseteq MadeBy(Supported(untarArchive), Len(Supported(untarArchive)))
    /\ untarFault.at = 0 =>
         /\ fs = UntarFrom(Supported(untarArchive), 0, "", NoFs).fs
         /\ untarErr = UntarFrom(Supported(untarArchive), 0, "", NoFs).err

C22_Witness ==
  /\ untarDone /\ untarErr = "" /\ untarFault.at = 0
  /\ Len(untarArchive) = 2
  /\ untarArchive[1] = Header(<<"a.itml">>, "symlink", <<1>>)
  /\ untarArchive[2] = Header(<<"intents", "a.itml">>, "reg", <<1>>)
  /\ DestDir \o <<"intents", "a.itml">> \in DOMAIN fs
  /\ DestDir \o <<"a.itml">> \notin DOMAIN fs

\* the places of a path in the list of checksum entries
Listed(path) == {i \in 1..Len(manifestEntries) : manifestEntries[i].Path = path}

\* C23: with outputPath inside srcDir the file at outputPath is never an
\* entry of the archive nor a line of MANIFEST.sha256, and itpkg.json is
\* added once, not a second time by the walk
C23_OutputNotInItself ==
  /\ outInside =>
       /\ Named(tw, OutRel) = {}
       /\ Listed(OutRel) = {}
       /\ outFile.exists => Named(outFile.entries, OutRel) = {}
  /\ Cardinality(Named(tw, ItpkgJson)) <= 1
  /\ Cardinality(Listed(ItpkgJson)) <= 1
  /\ Succeeded => (Cardinality(Named(outFile.entries, ItpkgJson)) = 1
                     /\ Cardinality(Listed(ItpkgJson)) = 1)

C23_Witness ==
  /\ Succeeded /\ outInside /\ prevManifest # <<>>
  /\ Len(tw) = Cardinality(DOMAIN srcFiles) + 3
  /\ DOMAIN srcFiles # {}

\* C24: a call that returns after os.Create has closed the tar writer, then
\* the gzip writer, then the output file; a call that returns before it, or
\* has not returned, has closed nothing
C24_ClosedInOrder ==
  /\ (Returned /\ err \notin ValidationErrors \cup {"create"}) =>
       closeLog = <<"tw", "gz", "outFile">>
  /\ (Returned /\ err \in ValidationErrors \cup {"create"}) => closeLog = <<>>
  /\ ~Returned => closeLog = <<>>

C24_Witness ==
  /\ Returned /\ err = "failed to add project files"
  /\ outFile.exists /\ Len(outFile.entries) >= 2
  /\ closeLog = <<"tw", "gz", "outFile">>

\* C29: when CreateItpkg returns success, no Close of the tar writer, the
\* gzip writer or the output file has failed
C29_SuccessMeansFinalized ==
  Succeeded => closeErr = ""

\* C25: the digest TarGzToPath returns without error is the SHA-256 of the
\* whole file that is at the returned path once the call has returned
C25_DigestOfWrittenFile ==
  (tgPc = "returned" /\ tgErr = "") => tgSum = <<104>> \o tgFile.bytes

\* C26: a request is re-issued exactly when the attempt before ended in a
\* transport error or a status >= 500, and at most 3 times (4 attempts); a
\* 4xx answer is never retried and makes Get return an error; against 500,
\* 500, 200 Get makes exactly 3 requests and returns nil
Retryable(outcome) == outcome = 0 \/ outcome >= 500
LastOf(log) == log[Len(log)]
C26_RetriesOnTransportAnd5xx ==
  httpPc = "returned" =>
    /\ Len(httpLog) \in 1..4
    /\ \A i \in 1..(Len(httpLog) - 1) : Retryable(httpLog[i])
    /\ Retryable(LastOf(httpLog)) => Len(httpLog) = 4
    /\ LastOf(httpLog) \in 400..499 => httpErr # ""
    /\ (Len(httpLog) >= 3 /\ SubSeq(httpLog, 1, 3) = <<500, 500, 200>>) =>
         (Len(httpLog) = 3 /\ httpErr = "")
C26_Witness ==
  /\ httpPc = "returned"
  /\ httpLog = <<500, 500, 200>>
  /\ httpErr = ""

\* C27: for every name the registry returns, the target directory of
\* install is a strict descendant of dest, so the install record is written
\* inside dest
StrictlyUnder(p, dir) ==
  Len(p) > Len(dir) /\ SubSeq(p, 1, Len(dir)) = dir
C27_TargetInsideDest ==
  targetDir # <<>> \/ instName # <<>> =>
    StrictlyUnder(targetDir, <<"dest">>) /\ StrictlyUnder(manPath, <<"dest">>)

\* C28: a package the package command produces when a signing key was
\* supplied carries the Ed25519 signature made with that key, and it carries
\* the UNSIGNED marker only when no key was supplied, whatever --unsigned is
Produced == cmdErr = "" /\ pc = "returned" /\ err = "" /\ outFile.exists
C28_KeySuppliedMeansSigned ==
  Produced =>
    /\ cmdKey # 0 =>
         BodyOf(outFile.entries, SignatureName)
           = <<115, cmdKey>> \o BodyOf(outFile.entries, ManifestSha)
    /\ BodyOf(outFile.entries, SignatureName) = <<85, 78, 83, 73, 71, 78, 69, 68>> =>
         cmdKey = 0

\* C30: a published version of the mock registry is immutable under every
\* interleaving: a stored key keeps its metadata and its file bytes, a later
\* publish of a stored key is answered 409, of the publishes of one new key
\* exactly one succeeds, and no resolve is answered with an entry whose file
\* is not stored
KeyOfRequest(r) ==
  LET parts == Split(regReqs[r].arg, "-") IN
  StringsJoin(SubSeq(parts, 1, Len(parts) - 1), "-") \o <<"@">> \o parts[Len(parts)]
PublishesDone ==
  {r \in 1..MaxReqs : regReqs[r].kind = "publish" /\ regReqs[r].pc = "done"
                        /\ regReqs[r].status # 400}
RegistryConsistent ==
  /\ \A r \in PublishesDone :
       /\ regReqs[r].status \in {200, 409}
       /\ Cardinality({o \in PublishesDone :
                         KeyOfRequest(o) = KeyOfRequest(r) /\ regReqs[o].status = 200}) = 1
       /\ regReqs[r].status = 200 =>
            /\ regPackages[KeyOfRequest(r)].SHA256 = <<104, r>>
            /\ regFiles[regPackages[KeyOfRequest(r)].Tarball] = <<r>>
  /\ \A r \in 1..MaxReqs :
       (regReqs[r].kind = "resolve" /\ regReqs[r].status = 200) => regReqs[r].saw[1].stored
StoredStays ==
  /\ \A k \in DOMAIN regPackages :
       k \in DOMAIN regPackages' /\ regPackages'[k] = regPackages[k]
  /\ \A f \in DOMAIN regFiles : f \in DOMAIN regFiles' /\ regFiles'[f] = regFiles[f]
C30_PublishedIsImmutable == []RegistryConsistent /\ [][StoredStays]_vars
C30_Witness ==
  /\ \E r, o \in PublishesDone :
       /\ KeyOfRequest(r) = KeyOfRequest(o)
       /\ regReqs[r].status = 200 /\ regReqs[o].status = 409

====
